---- MODULE Spec2Model ----
(***************************************************************************)
(* Model of amico.core.Evaluation (src/python/amico/core.py): the stages   *)
(* load_data, set_model, set_solver, generate_kernels, load_kernels, fit   *)
(* and save_results, the configuration map, and the two directories the    *)
(* stages write to (kernel atoms, results).                                *)
(*                                                                         *)
(* A volume is modelled along its x axis only: a spatial shape (n,1,1) is  *)
(* the number n, a voxel is an index 1..n, a mask or a map is a sequence   *)
(* of length n.  Python's None is the empty/zero value of each type.       *)
(***************************************************************************)
EXTENDS Integers, Sequences, FiniteSets, TLC

\* ---------------------------------------------------------------- bounds
MaxDim == 2        \* largest spatial extent of a volume
MaxAtoms == 2      \* largest number of atom files one generation writes

\* ------------------------------------------------------- input domains
ModelIds == {"A", "B"}
ModelNames == ModelIds \cup {"Unknown"}
LmaxValues == {8, 12}
Dims == 1..MaxDim
Samples == {1, 2}   \* sample counts (4th dimension, scheme rows)

\* values held by a voxel of an output volume
ZeroVal == 0       \* np.zeros initial value
FitVal == 1        \* value stored from the model's fit
PeakVal == 2       \* value read from an external peaks volume

\* ------------------------------------------------------- None values
NoDWI == [dim |-> 0, nS |-> 0]
NoScheme == 0
NoMask == << >>
NoPeaks == << >>
NoLmax == 0
NoModel == [id |-> "None"]
NoKernels == [model |-> "None", gen |-> {}, scheme |-> NoScheme, lmax |-> NoLmax]
NoResults == [held |-> FALSE, DIRs |-> << >>, MAPs |-> << >>, nOut |-> 0,
              hasNRMSE |-> FALSE, NRMSE |-> << >>, by |-> "None", path |-> "None"]

\* files the caller can name
DWIFiles == [dim : Dims, nS : Samples]
SchemeFiles == Samples
MaskFiles == UNION {{[i \in 1..n |-> IF i = 1 THEN b ELSE 1] : b \in {0, 1}} : n \in Dims}
FullMaskFiles == {[i \in 1..n |-> 1] : n \in Dims}
PeaksFiles == {[i \in 1..n |-> PeakVal] : n \in Dims}

VARIABLES
  niiDWI,       \* self.niiDWI / self.niiDWI_img: shape of the held signal
  scheme,       \* self.scheme: its sample count nS
  niiMASK_img,  \* self.niiMASK_img
  model,        \* self.model
  KERNELS,      \* self.KERNELS
  RESULTS,      \* self.RESULTS
  CONFIG,       \* self.CONFIG (the keys the stages read back)
  ATOMS,        \* files under <study_path>/kernels/<model id>
  OUTPUT,       \* files under <DATA_path>/AMICO/<model id>
  call,         \* the last call: operation, arguments, outcome
  completed,    \* the stages that have returned normally so far
  work          \* fit's voxel loop: the samples it reads, its locals, its position

vars == <<niiDWI, scheme, niiMASK_img, model, KERNELS, RESULTS, CONFIG,
          ATOMS, OUTPUT, call, completed, work>>

\* ------------------------------------------------------------ helpers
Ones(n) == [i \in 1..n |-> 1]
Zeros(n) == [i \in 1..n |-> ZeroVal]
NonZero(m) == {i \in 1..Len(m) : m[i] # 0}

\* declared output channels of each model (Model Interface)
OUTPUT_names(id) == IF id = "A" THEN <<"a1">> ELSE <<"b1", "b2">>

\* the record of a call: dwi, sch are load_data's files; regenerate is
\* generate_kernels' argument, populated whether it found atom files, generated
\* whether it invoked the model's generate; fitted the voxels fit handed to
\* the model's fit; found the files save_results met in its output directory
NoCall == [op |-> "init", result |-> "ok", dwi |-> NoDWI, sch |-> NoScheme,
           regenerate |-> FALSE, populated |-> FALSE, generated |-> FALSE,
           fitted |-> {}, found |-> {}]

Call(op, result) == [NoCall EXCEPT !.op = op, !.result = result]

\* the stages that have returned normally once `c` is over
Completed(c) == IF c.result = "ok" THEN completed \cup {c.op} ELSE completed

\* no fit call is under way
NoWork == [pc |-> "idle"]

\* Evaluation.__init__
Init ==
  /\ niiDWI = NoDWI
  /\ scheme = NoScheme
  /\ niiMASK_img = NoMask
  /\ model = NoModel
  /\ KERNELS = NoKernels
  /\ RESULTS = NoResults
  /\ CONFIG = [dim |-> 0, lmax |-> NoLmax, peaks_filename |-> NoPeaks,
               doNormalizeSignal |-> TRUE, doMergeB0 |-> TRUE,
               doComputeNRMSE |-> FALSE, solver_params |-> "None",
               fit_time |-> "None"]
  /\ ATOMS = [m \in ModelIds |-> {}]
  /\ OUTPUT = [m \in ModelIds |-> {}]
  /\ call = NoCall
  /\ completed = {}
  /\ work = NoWork

\* Evaluation.set_config, for the keys the caller sets between stages
set_config(key, value) ==
  /\ CONFIG' = [CONFIG EXCEPT ![key] = value]
  /\ call' = Call("set_config", "ok")
  /\ UNCHANGED <<completed, work>>
  /\ UNCHANGED <<niiDWI, scheme, niiMASK_img, model, KERNELS, RESULTS,
                 ATOMS, OUTPUT>>

\* a check that only rejects a scheme longer than the signal
SchemeMismatchLonger(sch, img) == sch > img.nS

\* if self.scheme.nS != self.niiDWI_img.shape[3]
SchemeMismatch(sch, img) == sch # img.nS

\* if self.get_config('dim') != self.niiMASK_img.shape[:3]
MaskMismatch(dim, mask) == dim # Len(mask)

\* Evaluation.load_data: the signal, the scheme and the mask are stored as
\* they are read, each before the check that follows it
load_data(dwi, sch, mask) ==
  /\ niiDWI' = dwi
  /\ CONFIG' = [CONFIG EXCEPT !.dim = dwi.dim]
  /\ scheme' = sch
  /\ IF SchemeMismatch(scheme', niiDWI')
       THEN /\ niiMASK_img' = niiMASK_img
            /\ call' = [Call("load_data", "ValueError:scheme") EXCEPT !.dwi = dwi, !.sch = sch]
       ELSE IF mask # NoMask
         THEN /\ niiMASK_img' = mask
              /\ call' = [Call("load_data",
                               IF MaskMismatch(CONFIG'.dim, niiMASK_img')
                                 THEN "ValueError:mask" ELSE "ok")
                          EXCEPT !.dwi = dwi, !.sch = sch]
         ELSE /\ niiMASK_img' = Ones(CONFIG'.dim)
              /\ call' = [Call("load_data", "ok") EXCEPT !.dwi = dwi, !.sch = sch]
  /\ completed' = Completed(call')
  /\ UNCHANGED work
  /\ UNCHANGED <<model, KERNELS, RESULTS, ATOMS, OUTPUT>>

\* Evaluation.set_solver applied to a model that is set
SolverParams(params) == params

\* Evaluation.set_model
set_model(model_name) ==
  /\ IF model_name \in ModelIds
       THEN /\ model' = [id |-> model_name]
            /\ CONFIG' = [CONFIG EXCEPT !.solver_params = SolverParams("default")]
            /\ call' = Call("set_model", "ok")
       ELSE /\ call' = Call("set_model", "ValueError:model")
            /\ UNCHANGED <<model, CONFIG>>
  /\ completed' = Completed(call')
  /\ UNCHANGED work
  /\ UNCHANGED <<niiDWI, scheme, niiMASK_img, KERNELS, RESULTS, ATOMS, OUTPUT>>

\* Evaluation.set_solver
set_solver(params) ==
  /\ IF model = NoModel
       THEN /\ call' = Call("set_solver", "RuntimeError:set_model")
            /\ UNCHANGED CONFIG
       ELSE /\ CONFIG' = [CONFIG EXCEPT !.solver_params = SolverParams(params)]
            /\ call' = Call("set_solver", "ok")
  /\ completed' = Completed(call')
  /\ UNCHANGED work
  /\ UNCHANGED <<niiDWI, scheme, niiMASK_img, model, KERNELS, RESULTS, ATOMS, OUTPUT>>

\* model.generate (Model Interface): writes k atom files A_<i>.npy, each
\* computed for the scheme attached to the model (model.scheme, set by
\* generate_kernels right before) and for the order lmax
ModelGenerate(k, sch, lmax) ==
  {[name |-> i, scheme |-> sch, lmax |-> lmax, of |-> k] : i \in 1..k}

\* glob( ATOMS_path/A_*.npy ): every file of the directory is an atom file
AtomFiles(id) == ATOMS[id]

\* a purge that removes nothing
PurgeNothing(dir) == dir

\* for f in glob( ATOMS_path/* ) : remove( f ) -- what is left of the directory
Purge(dir) == {}

\* files written into a directory replace the files of the same name
WriteFiles(dir, new) == {f \in dir : \A g \in new : g.name # f.name} \cup new

\* Evaluation.generate_kernels; k is the number of atoms the model writes
generate_kernels(regenerate, lmax, k) ==
  /\ IF scheme = NoScheme
       THEN /\ call' = Call("generate_kernels", "RuntimeError:load_data")
            /\ UNCHANGED <<CONFIG, ATOMS>>
       ELSE IF model = NoModel
         THEN /\ call' = Call("generate_kernels", "RuntimeError:set_model")
              /\ UNCHANGED <<CONFIG, ATOMS>>
         ELSE /\ CONFIG' = [CONFIG EXCEPT !.lmax = lmax]
              /\ IF AtomFiles(model.id) # {} /\ ~regenerate
                   THEN /\ UNCHANGED ATOMS
                        /\ call' = [Call("generate_kernels", "ok") EXCEPT
                                      !.regenerate = regenerate, !.populated = TRUE]
                   ELSE /\ ATOMS' = [ATOMS EXCEPT ![model.id] =
                                       WriteFiles(Purge(ATOMS[model.id]),
                                                  ModelGenerate(k, scheme, lmax))]
                        /\ call' = [Call("generate_kernels", "ok") EXCEPT
                                      !.regenerate = regenerate, !.generated = TRUE,
                                      !.populated = (AtomFiles(model.id) # {})]
  /\ completed' = Completed(call')
  /\ UNCHANGED work
  /\ UNCHANGED <<niiDWI, scheme, niiMASK_img, model, KERNELS, RESULTS, OUTPUT>>

\* model.resample (Model Interface): the KernelSet projected from the atoms
\* under ATOMS_path onto the scheme, tagged with the model's id
ModelResample(id, sch, lmax) ==
  [model |-> id, gen |-> {<<f.scheme, f.lmax>> : f \in ATOMS[id]}, scheme |-> sch, lmax |-> lmax]

\* model.resample finds no atom file to project, or the order was never
\* stored by generate_kernels: the call raises inside the model or the LUT
ResampleFails(id) == ATOMS[id] = {} \/ CONFIG.lmax = NoLmax

\* Evaluation.load_kernels
load_kernels ==
  /\ IF model = NoModel
       THEN /\ call' = Call("load_kernels", "RuntimeError:set_model")
            /\ UNCHANGED KERNELS
       ELSE IF scheme = NoScheme
         THEN /\ call' = Call("load_kernels", "RuntimeError:load_data")
              /\ UNCHANGED KERNELS
         ELSE IF ResampleFails(model.id)
           THEN /\ call' = Call("load_kernels", "IOError")
                /\ UNCHANGED KERNELS
           ELSE /\ KERNELS' = ModelResample(model.id, scheme, CONFIG.lmax)
                /\ call' = Call("load_kernels", "ok")
  /\ completed' = Completed(call')
  /\ UNCHANGED work
  /\ UNCHANGED <<niiDWI, scheme, niiMASK_img, model, RESULTS, CONFIG, ATOMS, OUTPUT>>

\* the voxels of the mask the loop hands to the model's fit: the nonzero ones,
\* in scan order, as long as the signal volume holds them
LoopVoxels(mask, dim) == {i \in NonZero(mask) : i <= dim}

\* a nonzero voxel of the mask lies outside the signal volume (IndexError)
LoopOverrun(mask, dim) == \E i \in NonZero(mask) : i > dim

\* DIRs before the loop: zeros of the signal's shape, or the peaks volume
InitDIRs(peaks, dim) == IF peaks = NoPeaks THEN Zeros(dim) ELSE peaks

\* an output volume after the loop has stored the model's result at `done`
Store(vol, done) == [i \in 1..Len(vol) |-> IF i \in done THEN FitVal ELSE vol[i]]

\* the precondition checks without the comparison of the kernels' model tag
FitCheckNoTag ==
  IF niiDWI = NoDWI THEN "RuntimeError:load_data"
  ELSE IF model = NoModel THEN "RuntimeError:set_model"
  ELSE IF KERNELS = NoKernels THEN "RuntimeError:kernels"
  ELSE "ok"

\* the precondition checks of Evaluation.fit: the error raised, or "ok"
FitCheck ==
  IF niiDWI = NoDWI THEN "RuntimeError:load_data"
  ELSE IF model = NoModel THEN "RuntimeError:set_model"
  ELSE IF KERNELS = NoKernels THEN "RuntimeError:kernels"
  ELSE IF KERNELS.model # model.id THEN "RuntimeError:model_mismatch"
  ELSE "ok"

\* Evaluation.fit; `crash` is the outcome of preparing a voxel whose signal
\* length differs from the scheme's sample count (an index or shape error
\* before the model's fit is reached, or none)
fit(crash) ==
  /\ IF FitCheck # "ok"
       THEN /\ call' = Call("fit", FitCheck)
            /\ UNCHANGED <<CONFIG, RESULTS>>
       ELSE LET peaks == CONFIG.peaks_filename
                dim == CONFIG.dim
                done == LoopVoxels(niiMASK_img, niiDWI.dim)
                error ==
                  IF niiMASK_img = NoMask THEN "AttributeError"
                  ELSE IF peaks # NoPeaks /\ Len(peaks) # Len(niiMASK_img)
                    THEN "ValueError:peaks"
                  ELSE IF SchemeMismatch(scheme, niiDWI) /\ crash /\ done # {}
                    THEN "Error:signal"
                  ELSE IF LoopOverrun(niiMASK_img, niiDWI.dim) THEN "IndexError"
                  ELSE "ok"
            IN
            IF error # "ok"
              THEN /\ call' = [Call("fit", error) EXCEPT
                                 !.fitted = IF error = "IndexError" THEN done ELSE {}]
                   /\ CONFIG' = [CONFIG EXCEPT !.fit_time = "None"]
                   /\ UNCHANGED RESULTS
              ELSE /\ call' = [Call("fit", "ok") EXCEPT !.fitted = done]
                   /\ CONFIG' = [CONFIG EXCEPT !.fit_time = "t"]
                   /\ RESULTS' =
                        [held |-> TRUE,
                         DIRs |-> Store(InitDIRs(peaks, dim), done),
                         MAPs |-> Store(Zeros(dim), done),
                         nOut |-> Len(OUTPUT_names(model.id)),
                         hasNRMSE |-> CONFIG.doComputeNRMSE,
                         NRMSE |-> IF CONFIG.doComputeNRMSE
                                     THEN Store(Zeros(dim), done) ELSE << >>,
                         by |-> model.id,
                         path |-> "None"]
  /\ completed' = Completed(call')
  /\ UNCHANGED work
  /\ UNCHANGED <<niiDWI, scheme, niiMASK_img, model, KERNELS, ATOMS, OUTPUT>>

\* the per-channel volumes save_results writes before it stops: one per
\* declared output of the active model, as long as MAPs holds the channel
MapFiles(id, nOut) ==
  {"FIT_" \o OUTPUT_names(id)[i] : i \in {j \in 1..Len(OUTPUT_names(id)) : j <= nOut}}

\* a purge of the output directory that removes nothing
PurgeResultsNothing(dir) == dir

\* for f in glob( RESULTS_path/* ) : remove( f ) -- what is left of the directory
PurgeResults(dir) == {}

\* Evaluation.save_results
save_results ==
  /\ IF ~RESULTS.held
       THEN /\ call' = Call("save_results", "RuntimeError:fit")
            /\ UNCHANGED <<RESULTS, OUTPUT>>
       ELSE LET id == model.id
                head == {"config.pickle", "FIT_dir"}
                nrmse == IF CONFIG.doComputeNRMSE /\ RESULTS.hasNRMSE
                           THEN {"FIT_nrmse"} ELSE {}
                keyError == CONFIG.doComputeNRMSE /\ ~RESULTS.hasNRMSE
                indexError == Len(OUTPUT_names(id)) > RESULTS.nOut
                new == IF keyError THEN head
                       ELSE head \cup nrmse \cup MapFiles(id, RESULTS.nOut)
            IN
            /\ RESULTS' = [RESULTS EXCEPT !.path = id]
            /\ OUTPUT' = [OUTPUT EXCEPT ![id] = PurgeResults(OUTPUT[id]) \cup new]
            /\ call' = [Call("save_results",
                             IF keyError THEN "KeyError"
                             ELSE IF indexError THEN "IndexError" ELSE "ok")
                         EXCEPT !.found = OUTPUT[id]]
  /\ completed' = Completed(call')
  /\ UNCHANGED work
  /\ UNCHANGED <<niiDWI, scheme, niiMASK_img, model, KERNELS, CONFIG, ATOMS>>

\* the calls a caller can make, over the files and arguments it has at hand
Calls(dwis, schemes, masks, names, params, regens, lmaxs, ks, flags, peaks) ==
  \/ \E b \in flags : set_config("doComputeNRMSE", b)
  \/ \E p \in peaks : set_config("peaks_filename", p)
  \/ \E d \in dwis, s \in schemes, m \in masks : load_data(d, s, m)
  \/ \E n \in names : set_model(n)
  \/ \E p \in params : set_solver(p)
  \/ \E r \in regens, l \in lmaxs, k \in ks : generate_kernels(r, l, k)
  \/ load_kernels
  \/ \E c \in BOOLEAN : fit(c)
  \/ save_results

\* every call over every file and argument
Next ==
  Calls(DWIFiles, SchemeFiles, MaskFiles \cup {NoMask}, ModelNames,
        {"default", "custom"}, BOOLEAN, LmaxValues, 1..MaxAtoms,
        BOOLEAN, PeaksFiles \cup {NoPeaks})

Spec == Init /\ [][Next]_vars

\* stage order: one signal file, schemes that match it or not, both models
NextStages ==
  Calls({d \in DWIFiles : d.dim = 1 /\ d.nS = 1}, SchemeFiles, {NoMask}, ModelNames,
        {"default", "custom"}, {FALSE}, {12}, {1}, {FALSE}, {NoPeaks})

SpecStages == Init /\ [][NextStages]_vars

\* kernel lifecycle: one model, every scheme, order and regeneration policy
NextKernels ==
  Calls({d \in DWIFiles : d.dim = 1}, SchemeFiles, {NoMask}, {"A"},
        {"default"}, BOOLEAN, LmaxValues, 1..MaxAtoms, {FALSE}, {NoPeaks})

SpecKernels == Init /\ [][NextKernels]_vars

\* geometry of the data: every signal and scheme file, a mask file of every
\* shape, one model
NextData ==
  Calls(DWIFiles, SchemeFiles, FullMaskFiles \cup {NoMask}, {"A"},
        {"default"}, {FALSE}, {12}, {1}, {FALSE}, {NoPeaks})

SpecData == Init /\ [][NextData]_vars

\* the voxel loop's outputs: the signal of the largest shape, every mask and
\* peaks file, the error-map flag, one scheme that matches the signal, one model
NextFit ==
  Calls({d \in DWIFiles : d.dim = MaxDim /\ d.nS = 1}, {1}, MaskFiles \cup {NoMask}, {"A"},
        {"default"}, {FALSE}, {12}, {1}, BOOLEAN, PeaksFiles \cup {NoPeaks})

SpecFit == Init /\ [][NextFit]_vars

\* results: one signal file, both models, the error-map flag
NextResults ==
  Calls({d \in DWIFiles : d.dim = 1 /\ d.nS = 1}, {1}, {NoMask}, ModelIds,
        {"default"}, {FALSE}, {12}, {1}, BOOLEAN, {NoPeaks})

SpecResults == Init /\ [][NextResults]_vars

\* ------------------------------------------------- sample arithmetic
\* A sample is a binary floating-point number: the pair <<m, e>> stands for
\* m * 2^e, with m odd (zero is <<0, 0>>).  Every operation rounds its exact
\* result to the nearest number whose mantissa m has at most Precision bits,
\* ties to even (np.float64 has 53 bits and the same rounding).  NaN is <<0, 1>>.
Precision == 2

\* the exponents of the two thresholds: b0 > 1e-3, den > 1e-16
B0ThresholdExp == 3
DenThresholdExp == 16

NaN == <<0, 1>>
Zero == <<0, 0>>
One == <<1, 0>>

IsNaN(a) == a = NaN

RECURSIVE Pow2(_)
Pow2(k) == IF k = 0 THEN 1 ELSE 2 * Pow2(k - 1)

Max(a, b) == IF a >= b THEN a ELSE b
Min(a, b) == IF a <= b THEN a ELSE b
Abs(n) == IF n < 0 THEN -n ELSE n

\* the number of bits of n >= 0
RECURSIVE BitLen(_)
BitLen(n) == IF n = 0 THEN 0 ELSE BitLen(n \div 2) + 1

\* m * 2^e with the mantissa made odd
RECURSIVE Canon(_, _)
Canon(m, e) ==
  IF m = 0 THEN Zero
  ELSE IF m % 2 = 0 THEN Canon(m \div 2, e + 1)
  ELSE <<m, e>>

\* the integer nearest to n/d, ties to even (n >= 0, d > 0)
NearestEven(n, d) ==
  LET q == n \div d
      r == n % d
  IN IF 2 * r > d \/ (2 * r = d /\ q % 2 = 1) THEN q + 1 ELSE q

\* the floating-point number nearest to (n/d) * 2^e, for n/d >= 2^Precision:
\* the quotient is cut to Precision bits
RECURSIVE RoundQuotient(_, _, _)
RoundQuotient(n, d, e) ==
  IF n \div d >= Pow2(Precision) THEN RoundQuotient(n, 2 * d, e + 1)
  ELSE Canon(NearestEven(n, d), e)

\* the floating-point number nearest to m * 2^e
Round(m, e) ==
  IF Abs(m) < Pow2(Precision) THEN Canon(m, e)
  ELSE IF m < 0 THEN <<-RoundQuotient(-m, 1, e)[1], RoundQuotient(-m, 1, e)[2]>>
  ELSE RoundQuotient(m, 1, e)

\* the position of a's leading bit: 2^(Top(a)-1) <= |a| < 2^Top(a)
Top(a) == a[2] + BitLen(Abs(a[1]))

\* b is less than a quarter of the gap between a and its neighbours: a + b
\* and a - b round to a
Absorbs(a, b) == Top(a) - Top(b) >= Precision + 2

\* a + b, a - b, a * b, a / b as the processor computes them
FAdd(a, b) ==
  IF IsNaN(a) \/ IsNaN(b) THEN NaN
  ELSE IF b = Zero THEN a
  ELSE IF a = Zero THEN b
  ELSE IF Absorbs(a, b) THEN a
  ELSE IF Absorbs(b, a) THEN b
  ELSE LET e == Min(a[2], b[2])
       IN Round(a[1] * Pow2(a[2] - e) + b[1] * Pow2(b[2] - e), e)

FSub(a, b) == FAdd(a, IF IsNaN(b) THEN NaN ELSE <<-b[1], b[2]>>)

FMul(a, b) == IF IsNaN(a) \/ IsNaN(b) THEN NaN ELSE Round(a[1] * b[1], a[2] + b[2])

\* the quotient of the mantissas is taken with 2*Precision+2 more bits than
\* the divisor has, enough for the rounding to see the exact quotient's place
FDiv(a, b) ==
  IF IsNaN(a) \/ IsNaN(b) \/ b = Zero THEN NaN
  ELSE IF a = Zero THEN Zero
  ELSE LET k == 2 * Precision + 2
           q == RoundQuotient(Abs(a[1]) * Pow2(k), Abs(b[1]), a[2] - b[2] - k)
       IN IF (a[1] < 0) # (b[1] < 0) THEN <<-q[1], q[2]>> ELSE q

\* x * 5^k >= r, for integers x, r >= 0
RECURSIVE AtLeast(_, _, _)
AtLeast(x, k, r) == IF k = 0 THEN x >= r ELSE AtLeast(x, k - 1, (r + 4) \div 5)

\* a > 10^-k, k >= 1 (a comparison with NaN is false)
Exceeds(a, k) ==
  /\ ~IsNaN(a)
  /\ a[1] > 0
  /\ a[2] + k >= 0 \/ AtLeast(a[1], k, Pow2(-a[2] - k) + 1)

\* np.sqrt: the floating-point number nearest to the square root of a.  With
\* a = x * 4^s and 4^(Precision-1) <= x < 4^Precision, the mantissa is the
\* integer nearest to the square root of x (which is never half way).
FSqrt(a) ==
  IF IsNaN(a) \/ a[1] < 0 THEN NaN
  ELSE IF a = Zero THEN Zero
  ELSE LET s == ((Top(a) - 1) \div 2) - (Precision - 1)
           x == a[1] * Pow2(a[2] - 2 * s)
           m == CHOOSE k \in Pow2(Precision - 1)..Pow2(Precision) :
                  /\ (2 * k - 1) * (2 * k - 1) <= 4 * x
                  /\ 4 * x <= (2 * k + 1) * (2 * k + 1)
       IN Canon(m, s)

\* np.sum: the samples added one after the other
RECURSIVE SumTo(_, _)
SumTo(v, k) == IF k = 0 THEN Zero ELSE FAdd(SumTo(v, k - 1), v[k])

\* np.mean: the sum divided by the count; NaN for no sample
Mean(v) == IF Len(v) = 0 THEN NaN ELSE FDiv(SumTo(v, Len(v)), Canon(Len(v), 0))

\* y[idx]: the samples at the indices idx, in index order
RECURSIVE PickTo(_, _, _)
PickTo(y, idx, k) ==
  IF k = 0 THEN << >>
  ELSE IF k \in idx THEN Append(PickTo(y, idx, k - 1), y[k])
  ELSE PickTo(y, idx, k - 1)

Pick(y, idx) == PickTo(y, idx, Len(y))

\* ------------------------------------------------------ the voxel loop
\* The loop of Evaluation.fit, one voxel per step.  work holds what the loop
\* reads beside the variables above (the samples of niiDWI_img, the scheme's
\* b0 indices, the response of the model's fit under the kernels held) and
\* the loop's locals.
SignalLen == 5       \* samples per voxel of the signals the loop is run on

SampleValues == {<<-1, 0>>, <<1, -10>>, <<3, 0>>}
SignalVectors == [1..SignalLen -> SampleValues]
VoxelSignals == {[i \in 1..SignalLen |-> IF i = 1 THEN a ELSE <<3, 0>>] : a \in {<<-1, 0>>, <<3, 0>>}}
B0Sets == {{}, {1}, {1, 2}, 1..SignalLen}
Responses == {Zero, One}
LoopMasks == [1..MaxDim -> {0, 1}]
Orders(n) == {o \in [1..n -> 1..n] : \A i, j \in 1..n : i # j => o[i] # o[j]}

\* .astype(np.float64): a new array, each sample rounded to the working format
WorkingCopy(src) == [i \in 1..Len(src) |-> IF IsNaN(src[i]) THEN NaN ELSE Round(src[i][1], src[i][2])]

\* y[ y < 0 ] = 0
Clamp(y) == [i \in 1..Len(y) |-> IF y[i][1] < 0 THEN Zero ELSE y[i]]

\* a merge that overwrites every sample
MergeEverySample(y, idx, b0) == [i \in 1..Len(y) |-> b0]

\* y[b0_idx] = b0
MergeB0(y, idx, b0) == [i \in 1..Len(y) |-> IF i \in idx THEN b0 ELSE y[i]]

\* y / b0
Normalize(y, b0) == [i \in 1..Len(y) |-> FDiv(y[i], b0)]

\* a test that lets every positive b0 through
B0Positive(b0) == ~IsNaN(b0) /\ b0[1] > 0

\* b0 > 1e-3
B0AboveThreshold(b0) == Exceeds(b0, B0ThresholdExp)

\* a test that lets every energy through
DenAny(den) == TRUE

\* den > 1e-16
DenAboveThreshold(den) == Exceeds(den, DenThresholdExp)

\* np.sum( y**2 )
SumSq(y) == SumTo([i \in 1..Len(y) |-> FMul(y[i], y[i])], Len(y))

\* DTI.fit( y ).directions[0]: a direction computed from the prepared signal
DTIDirs(y) == Cardinality({i \in 1..Len(y) : y[i][1] > 0})

\* model.fit (Model Interface), a pure function of its arguments: the
\* estimated signal, the directions it returns, the value of each output
\* channel.  resp stands for the kernels and solver parameters it is given.
ModelFit(y, dirs, resp) ==
  [y_est |-> [i \in 1..Len(y) |-> resp], dirs_mod |-> dirs + 1, x |-> y[Len(y)]]

\* a read of the neighbouring voxel's slot
ReadNeighbour(DIRs, i) == DIRs[IF i > 1 THEN i - 1 ELSE i]

\* DIRs[ix,iy,iz,:]
ReadDirs(DIRs, i) == DIRs[i]

\* a skip test that skips no voxel
SkippedNever(mask, i) == FALSE

\* if self.niiMASK_img[ix,iy,iz]==0 : continue
Skipped(mask, i) == mask[i] = 0

\* a working vector that is a view of the volume: its writes land in the volume
SourceAfterView(src, y) == y

\* the voxel's samples in niiDWI_img once the working copy y has been written to
SourceAfterCopy(src, y) == src

\* the body of the loop for a voxel the mask selects: the values it computes
\* from the voxel's samples src and the direction slot dirs_in
FitVoxel(src, dirs_in, cfg, idx, resp) ==
  LET clamped == Clamp(WorkingCopy(src))
      b0 == Mean(Pick(clamped, idx))
      merging == cfg.doMergeB0 /\ Cardinality(idx) > 0
      merged == IF merging THEN MergeB0(clamped, idx, b0) ELSE clamped
      normalized == cfg.doNormalizeSignal /\ B0AboveThreshold(b0)
      y == IF normalized THEN Normalize(merged, b0) ELSE merged
      dirs == IF cfg.peaks_filename = NoPeaks THEN DTIDirs(y) ELSE dirs_in
      f == ModelFit(y, dirs, resp)
      den == SumSq(y)
      num == SumSq([i \in 1..Len(y) |-> FSub(y[i], f.y_est[i])])
      nrmse == IF DenAboveThreshold(den) THEN FSqrt(FDiv(num, den)) ELSE Zero
  IN [src |-> src, clamped |-> clamped, b0 |-> b0, merging |-> merging,
      merged |-> merged, normalized |-> normalized, y |-> y, y_est |-> f.y_est,
      dirs_mod |-> f.dirs_mod, x |-> f.x, den |-> den, nrmse |-> nrmse]

\* one iteration of the loop, for voxel i, on the loop state w
VisitVoxel(w, i) ==
  IF Skipped(niiMASK_img, i) THEN w
  ELSE LET v == FitVoxel(w.niiDWI_img[i], ReadDirs(w.DIRs, i), CONFIG, w.b0_idx, w.resp)
       IN [w EXCEPT !.niiDWI_img[i] = SourceAfterCopy(@, v.merged),
                    !.DIRs[i] = v.dirs_mod,
                    !.MAPs[i] = v.x,
                    !.NRMSE = IF CONFIG.doComputeNRMSE THEN [@ EXCEPT ![i] = v.nrmse] ELSE @,
                    !.calls[i] = @ + 1,
                    !.progress = @ + 1,
                    !.last = [voxel |-> i, v |-> v]]

\* no voxel has been handed to the model's fit yet
NoLast == [voxel |-> 0]

\* the loop state fit sets up before its first iteration
LoopEntry(w) ==
  LET dim == CONFIG.dim
  IN [w EXCEPT !.pc = "loop",
               !.pos = 1,
               !.totVoxels = Cardinality(NonZero(niiMASK_img)),
               !.DIRs = InitDIRs(CONFIG.peaks_filename, dim),
               !.MAPs = [i \in 1..dim |-> Zero],
               !.NRMSE = IF CONFIG.doComputeNRMSE THEN [i \in 1..dim |-> Zero] ELSE << >>,
               !.calls = [i \in 1..dim |-> 0],
               !.progress = 0,
               !.last = NoLast]

\* Evaluation.fit up to the loop: the checks, the output volumes, the counters
fit_begin ==
  /\ work.pc \in {"ready", "done"}
  /\ IF FitCheck # "ok"
       THEN /\ call' = Call("fit", FitCheck)
            /\ UNCHANGED <<CONFIG, work>>
       ELSE IF /\ CONFIG.peaks_filename # NoPeaks
               /\ Len(CONFIG.peaks_filename) # Len(niiMASK_img)
         THEN /\ call' = Call("fit", "ValueError:peaks")
              /\ CONFIG' = [CONFIG EXCEPT !.fit_time = "None"]
              /\ UNCHANGED work
         ELSE /\ CONFIG' = [CONFIG EXCEPT !.fit_time = "None"]
              /\ work' = LoopEntry(work)
              /\ UNCHANGED call
  /\ UNCHANGED <<niiDWI, scheme, niiMASK_img, model, KERNELS, RESULTS, ATOMS,
                 OUTPUT, completed>>

\* one iteration: the voxel at the loop's position, skipped or fitted
fit_voxel ==
  /\ work.pc = "loop"
  /\ work.pos <= Len(niiMASK_img)
  /\ work' = [VisitVoxel(work, work.order[work.pos]) EXCEPT !.pos = @ + 1]
  /\ UNCHANGED <<niiDWI, scheme, niiMASK_img, model, KERNELS, RESULTS, CONFIG,
                 ATOMS, OUTPUT, call, completed>>

\* Evaluation.fit after the loop: the fit time and the Results
fit_end ==
  /\ work.pc = "loop"
  /\ work.pos > Len(niiMASK_img)
  /\ CONFIG' = [CONFIG EXCEPT !.fit_time = "t"]
  /\ RESULTS' = [held |-> TRUE, DIRs |-> work.DIRs, MAPs |-> work.MAPs,
                 nOut |-> Len(OUTPUT_names(model.id)),
                 hasNRMSE |-> CONFIG.doComputeNRMSE, NRMSE |-> work.NRMSE,
                 by |-> model.id, path |-> "None"]
  /\ work' = [work EXCEPT !.pc = "done"]
  /\ call' = [Call("fit", "ok") EXCEPT !.fitted = {i \in 1..Len(work.calls) : work.calls[i] > 0}]
  /\ completed' = Completed(call')
  /\ UNCHANGED <<niiDWI, scheme, niiMASK_img, model, KERNELS, ATOMS, OUTPUT>>

\* an Evaluation ready to fit: data of the shape (dim,1,1,SignalLen) loaded
\* with a mask or none, model A set, its kernels generated and loaded, the
\* flags and the peaks file configured
ReadyToFit(dim, mask, peaks, flags, signals, idx, resp, order) ==
  LET atoms == ModelGenerate(1, SignalLen, 12)
  IN /\ niiDWI = [dim |-> dim, nS |-> SignalLen]
     /\ scheme = SignalLen
     /\ niiMASK_img = mask
     /\ model = [id |-> "A"]
     /\ KERNELS = [model |-> "A", gen |-> {<<f.scheme, f.lmax>> : f \in atoms},
                   scheme |-> SignalLen, lmax |-> 12]
     /\ RESULTS = NoResults
     /\ CONFIG = [dim |-> dim, lmax |-> 12, peaks_filename |-> peaks,
                  doNormalizeSignal |-> flags[1], doMergeB0 |-> flags[2],
                  doComputeNRMSE |-> flags[3], solver_params |-> "default",
                  fit_time |-> "None"]
     /\ ATOMS = [m \in ModelIds |-> IF m = "A" THEN atoms ELSE {}]
     /\ OUTPUT = [m \in ModelIds |-> {}]
     /\ call = Call("load_kernels", "ok")
     /\ completed = {"load_data", "set_model", "generate_kernels", "load_kernels"}
     /\ work = [pc |-> "ready", niiDWI_img |-> signals, b0_idx |-> idx,
                resp |-> resp, order |-> order, pos |-> 0, totVoxels |-> 0,
                DIRs |-> << >>, MAPs |-> << >>, NRMSE |-> << >>, calls |-> << >>,
                progress |-> 0, last |-> NoLast]

NextLoop == fit_begin \/ fit_voxel \/ fit_end

\* the loop body as a function of a voxel's samples: one voxel, with every
\* signal vector, b0 index set, normalization and merge flag and response of
\* the model, the error map computed
InitVoxel ==
  \E y \in SignalVectors, idx \in B0Sets, normalize \in BOOLEAN, merge \in BOOLEAN,
     resp \in Responses :
    ReadyToFit(1, Ones(1), NoPeaks, <<normalize, merge, TRUE>>, <<y>>, idx, resp, <<1>>)

SpecVoxel == InitVoxel /\ [][NextLoop]_vars

\* the loop over a volume of MaxDim voxels: every mask (or none, which
\* load_data turns into ones), every order of visiting the voxels, a peaks
\* file or none, the error map computed or not
InitVolume ==
  \E mask \in LoopMasks, signals \in [1..MaxDim -> VoxelSignals],
     peaks \in {NoPeaks, [i \in 1..MaxDim |-> PeakVal]}, nrmse \in BOOLEAN,
     order \in Orders(MaxDim) :
    ReadyToFit(MaxDim, mask, peaks, <<TRUE, TRUE, nrmse>>, signals, {1, 2},
               One, order)

SpecVolume == InitVolume /\ [][NextLoop]_vars
\* ------------------------------------------------------------- claims

\* C1: fit hands a voxel to the model's fit only if the signal is loaded, a
\* model is set, a KernelSet is present and its model tag equals the active
\* model's id; if one of the four is unmet, fit raises a RuntimeError and no
\* voxel is fitted.  (fit changes none of the four, so they are read after it.)
FitPreconditionsMet ==
  /\ niiDWI # NoDWI
  /\ model # NoModel
  /\ KERNELS # NoKernels
  /\ KERNELS.model = model.id

C1_FitOnlyWithMatchingKernels ==
  call.op = "fit" =>
    /\ call.fitted # {} => FitPreconditionsMet
    /\ ~FitPreconditionsMet =>
         /\ call.fitted = {}
         /\ call.result \in {"RuntimeError:load_data", "RuntimeError:set_model",
                             "RuntimeError:kernels", "RuntimeError:model_mismatch"}

\* fit was called with kernels loaded under another model than the active one
C1_Witness ==
  /\ call.op = "fit"
  /\ KERNELS # NoKernels
  /\ model # NoModel
  /\ KERNELS.model # model.id
  /\ call.result = "RuntimeError:model_mismatch"

\* C2: whenever fit hands a voxel to the model, the KernelSet it uses was
\* generated and resampled for the scheme, the model and the order in force
\* (stated for a scheme that matches the signal held).
C2_KernelsInForce ==
  (call.op = "fit" /\ call.fitted # {} /\ scheme = niiDWI.nS) =>
    /\ KERNELS.model = model.id
    /\ KERNELS.scheme = scheme
    /\ KERNELS.lmax = CONFIG.lmax
    /\ KERNELS.gen = {<<scheme, CONFIG.lmax>>}

\* C3: a stage returns normally only after the stages before it have: a call
\* made before its prerequisite raises the error naming the missing stage.
C3_StageOrder ==
  /\ (call.op = "set_solver" /\ call.result = "ok") => "set_model" \in completed
  /\ (call.op = "generate_kernels" /\ call.result = "ok") =>
       {"load_data", "set_model"} \subseteq completed
  /\ (call.op = "load_kernels" /\ call.result = "ok") =>
       {"load_data", "set_model", "generate_kernels"} \subseteq completed
  /\ (call.op = "fit" /\ call.result = "ok") => "load_kernels" \in completed
  /\ (call.op = "save_results" /\ call.result = "ok") => "fit" \in completed

\* C4: load_data of a signal whose 4th dimension differs from the scheme's
\* sample count raises, and the signal and the scheme held afterwards are the
\* ones read, neither cut to the other's length.
C4_SchemeMismatchRaises ==
  (call.op = "load_data" /\ call.dwi.nS # call.sch) =>
    /\ call.result = "ValueError:scheme"
    /\ niiDWI = call.dwi
    /\ scheme = call.sch

\* load_data has raised on a signal and a scheme of different lengths
C4_Witness ==
  /\ call.op = "load_data"
  /\ call.dwi.nS # call.sch
  /\ call.result = "ValueError:scheme"
  /\ niiDWI.nS # scheme

\* C5: no voxel is fitted while the mask held has another spatial shape than
\* the signal.
C5_NoFitOnMismatchedMask ==
  (call.op = "fit" /\ call.fitted # {}) => Len(niiMASK_img) = niiDWI.dim

\* C6: whenever a scheme and a signal are held, the scheme's sample count is
\* the signal's 4th dimension and the mask has the signal's spatial shape.
C6_GeometryInvariant ==
  (scheme # NoScheme /\ niiDWI # NoDWI) =>
    /\ scheme = niiDWI.nS
    /\ Len(niiMASK_img) = niiDWI.dim

\* C7: after a fit that completed, every voxel where the mask is zero holds
\* zero in the DirectionVolume, the OutputMaps and the ErrorMap (stated for a
\* mask of the signal's shape, the geometry a load_data that returned leaves).
C7_MaskedOutVoxelsZero ==
  (call.op = "fit" /\ call.result = "ok" /\ Len(niiMASK_img) = niiDWI.dim) =>
    \A i \in 1..Len(niiMASK_img) :
      niiMASK_img[i] = 0 =>
        /\ RESULTS.DIRs[i] = ZeroVal
        /\ RESULTS.MAPs[i] = ZeroVal
        /\ RESULTS.hasNRMSE => RESULTS.NRMSE[i] = ZeroVal

\* C8: generate_kernels on a populated atom directory: with regenerate=False
\* it returns normally, leaves every file as it is and does not invoke the
\* model's generate; with regenerate=True it invokes it and the directory then
\* holds the files of this generation only.
C8_RegeneratePolicy ==
  [][(call'.op = "generate_kernels" /\ model # NoModel /\ AtomFiles(model.id) # {}) =>
       /\ call'.result = "ok"
       /\ ~call'.regenerate => (ATOMS' = ATOMS /\ ~call'.generated)
       /\ call'.regenerate =>
            /\ call'.generated
            /\ \A f \in ATOMS'[model.id] :
                 /\ f.scheme = scheme
                 /\ f.lmax = CONFIG'.lmax
                 /\ f.of = Cardinality(ATOMS'[model.id])]_vars

\* generate_kernels has regenerated a directory that held atom files
C8_Witness ==
  /\ call.op = "generate_kernels"
  /\ call.regenerate
  /\ call.populated
  /\ call.generated

\* C9: Results are held only after a fit has completed, and after a fit call
\* that raised the Evaluation holds no Results of an earlier fit.
C9_FitInvalidatesResults ==
  /\ RESULTS.held => "fit" \in completed
  /\ (call.op = "fit" /\ call.result # "ok") => ~RESULTS.held

\* C10: save_results writes FIT_nrmse exactly when the Results hold an
\* ErrorMap, and does not fail on the flag having changed since the fit.
C10_ErrorMapWrittenIffHeld ==
  (call.op = "save_results" /\ RESULTS.held) =>
    /\ call.result # "KeyError"
    /\ ("FIT_nrmse" \in OUTPUT[model.id]) <=> RESULTS.hasNRMSE

\* C14: after a save_results that completed, the output directory holds the
\* files this call wrote and no other: the configuration snapshot, the
\* direction volume, the error map if the call wrote one, one volume per
\* declared output channel; no file the call found there is left beside them.
\* (save_results changes neither the model nor the configuration.)
C14_OutputHoldsThisSaveOnly ==
  (call.op = "save_results" /\ call.result = "ok") =>
    OUTPUT[model.id] =
      {"config.pickle", "FIT_dir"}
        \cup (IF CONFIG.doComputeNRMSE THEN {"FIT_nrmse"} ELSE {})
        \cup {"FIT_" \o OUTPUT_names(model.id)[i] : i \in 1..Len(OUTPUT_names(model.id))}

\* a save has completed in a directory where it found an error map, and wrote none
C14_Witness ==
  /\ call.op = "save_results"
  /\ call.result = "ok"
  /\ "FIT_nrmse" \in call.found
  /\ "FIT_nrmse" \notin OUTPUT[model.id]

\* the loop's outputs when the voxels are visited in the scan order 1..k
RECURSIVE ScanTo(_, _)
ScanTo(w, k) == IF k = 0 THEN w ELSE VisitVoxel(ScanTo(w, k - 1), k)

\* C11: for a model fit that is a pure function of its arguments, the
\* DirectionVolume, the OutputMaps and the ErrorMap a fit leaves are those of
\* the sequential scan, in whatever order the loop visited the voxels.
C11_OrderIndependent ==
  work.pc = "done" =>
    LET scan == ScanTo(LoopEntry(work), Len(niiMASK_img))
    IN /\ RESULTS.DIRs = scan.DIRs
       /\ RESULTS.MAPs = scan.MAPs
       /\ RESULTS.NRMSE = scan.NRMSE

\* a fit has completed that visited the last voxel first, every voxel selected
\* by the mask, the directions read from a peaks volume
C11_Witness ==
  /\ work.pc = "done"
  /\ Len(niiMASK_img) > 1
  /\ work.order[1] = Len(niiMASK_img)
  /\ NonZero(niiMASK_img) = 1..Len(niiMASK_img)
  /\ CONFIG.peaks_filename # NoPeaks

C13_ZeroEnergyZeroError ==
  (work.last.voxel # 0 /\ CONFIG.doComputeNRMSE /\ work.last.v.den = Zero) =>
    work.NRMSE[work.last.voxel] = Zero

\* a voxel of zero energy has been fitted with a nonzero estimated signal
C13_Witness ==
  /\ work.last.voxel # 0
  /\ CONFIG.doComputeNRMSE
  /\ work.last.v.den = Zero
  /\ \E i \in 1..SignalLen : work.last.v.y_est[i] # Zero
  /\ work.NRMSE[work.last.voxel] = Zero

\* C15: a fit that completed has handed each voxel of nonzero mask value to
\* the model's fit exactly once and no voxel of zero mask value, and advanced
\* the progress indicator once per fitted voxel, totVoxels times in all (every
\* voxel, for the mask of ones load_data builds when none is supplied); and
\* the loop terminates: every iteration moves the position one voxel on, no
\* voxel is handed over twice on the way, and at the position past the last
\* voxel the only step is the one that ends the fit.
C15_FitsEachMaskedVoxelOnce ==
  /\ [](work.pc = "done" =>
         /\ \A i \in 1..Len(niiMASK_img) :
              work.calls[i] = IF niiMASK_img[i] # 0 THEN 1 ELSE 0
         /\ work.totVoxels = Cardinality(NonZero(niiMASK_img))
         /\ work.progress = work.totVoxels)
  /\ [](work.pc = "loop" =>
         /\ work.pos \in 1..(Len(niiMASK_img) + 1)
         /\ \A i \in 1..Len(niiMASK_img) : work.calls[i] <= 1)
  /\ [][work.pc = "loop" =>
          \/ /\ work.pos <= Len(niiMASK_img)
             /\ work'.pc = "loop"
             /\ work'.pos = work.pos + 1
          \/ /\ work.pos = Len(niiMASK_img) + 1
             /\ work'.pc = "done"]_vars

\* a fit has completed on a mask that selects one voxel and leaves one out
C15_Witness ==
  /\ work.pc = "done"
  /\ \E i, j \in 1..Len(niiMASK_img) : niiMASK_img[i] = 0 /\ niiMASK_img[j] # 0
  /\ work.progress = Cardinality(NonZero(niiMASK_img))
  /\ call.fitted = NonZero(niiMASK_img)

\* C16: no step of fit changes the samples of the SignalVolume, the mask, the
\* scheme (its sample count and b0 indices) or the KernelSet.
C16_FitLeavesInputsUnchanged ==
  [][/\ work'.niiDWI_img = work.niiDWI_img
     /\ work'.b0_idx = work.b0_idx
     /\ work'.resp = work.resp
     /\ UNCHANGED <<niiDWI, niiMASK_img, scheme, KERNELS>>]_vars

\* a second fit is under way (the Results of the first are held) and has
\* clamped and merged its working vector, the voxel's samples in the volume
\* being the ones it read
C16_Witness ==
  /\ work.pc = "loop"
  /\ RESULTS.held
  /\ work.last.voxel # 0
  /\ work.last.v.merged # work.last.v.src
  /\ \E i \in 1..SignalLen : work.last.v.src[i][1] < 0
  /\ work.niiDWI_img[work.last.voxel] = work.last.v.src

\* C17: the vector handed to the model's fit is the clamped vector, its b0
\* samples replaced by b0 if merging applies, divided by b0 exactly when
\* normalization is enabled and b0 > 1e-3; b0 is the mean of the clamped b0
\* samples; no sample handed over is negative.
C17_NormalizedIffAboveThreshold ==
  work.last.voxel # 0 =>
    LET v == work.last.v
        idx == work.b0_idx
        n == Len(v.src)
        above == v.b0[1] > 0 /\ (v.b0[2] >= 0 \/ 1000 * v.b0[1] > Pow2(-v.b0[2]))
    IN /\ v.clamped = [i \in 1..n |-> IF v.src[i][1] < 0 THEN Zero ELSE v.src[i]]
       /\ v.b0 = Mean(Pick(v.clamped, idx))
       /\ v.merged = IF CONFIG.doMergeB0 /\ idx # {}
                       THEN [i \in 1..n |-> IF i \in idx THEN v.b0 ELSE v.clamped[i]]
                       ELSE v.clamped
       /\ v.y = IF CONFIG.doNormalizeSignal /\ above
                  THEN [i \in 1..n |-> FDiv(v.merged[i], v.b0)]
                  ELSE v.merged
       /\ \A i \in 1..n : v.y[i][1] >= 0

\* normalization is enabled and a voxel was fitted whose b0 is positive and
\* not above the threshold: the model received the un-normalized vector
C17_Witness ==
  /\ work.last.voxel # 0
  /\ CONFIG.doNormalizeSignal
  /\ work.last.v.b0[1] > 0
  /\ work.last.v.b0[2] < 0
  /\ 1000 * work.last.v.b0[1] <= Pow2(-work.last.v.b0[2])
  /\ work.last.v.y = work.last.v.merged
  /\ \E i \in 1..SignalLen : work.last.v.src[i][1] < 0

\* the prerequisite a stage checks before it does anything is missing
PrerequisiteMissing(op) ==
  \/ op = "set_solver" /\ model = NoModel
  \/ op = "generate_kernels" /\ (scheme = NoScheme \/ model = NoModel)
  \/ op = "load_kernels" /\ (model = NoModel \/ scheme = NoScheme)
  \/ op = "fit" /\ ~FitPreconditionsMet
  \/ op = "save_results" /\ ~RESULTS.held

\* C18: a stage called while its prerequisite is missing (for fit: also while
\* the KernelSet's model tag differs from the active model's id) raises a
\* RuntimeError and leaves the configuration, the model, the scheme, the
\* KernelSet, the Results and the files of both directories as they were.
C18_FailedCheckChangesNothing ==
  [][PrerequisiteMissing(call'.op) =>
       /\ call'.result \in {"RuntimeError:load_data", "RuntimeError:set_model",
                            "RuntimeError:kernels", "RuntimeError:model_mismatch",
                            "RuntimeError:fit"}
       /\ UNCHANGED <<CONFIG, model, scheme, KERNELS, RESULTS, ATOMS, OUTPUT>>]_vars

\* fit has raised on kernels of another model while Results and files are held
C18_Witness ==
  /\ call.op = "fit"
  /\ call.result = "RuntimeError:model_mismatch"
  /\ RESULTS.held
  /\ CONFIG.fit_time = "t"
  /\ OUTPUT[RESULTS.by] # {}

\* C19: whenever save_results succeeds, the Results it writes were filled by
\* the fit of the model that names the directory and the channel volumes.
C19_SavedUnderFittingModel ==
  (call.op = "save_results" /\ call.result = "ok") => RESULTS.by = model.id
====
